---- MODULE Spec2Model ----
(***************************************************************************)
(* Model of the upload engine of s3chunk:                                  *)
(*   - SnowflakeGenerator / getSnowflakeGenerator   (src/src/jose.ts)      *)
(*   - the S3 client cache of the chunk server      (src/unnamed/part_001) *)
(*   - the files router (upload protocols)          (src/unnamed/part_003) *)
(*                                                                         *)
(* The specifications:                                                     *)
(*   SpecGen    one SnowflakeGenerator instance under arbitrary clock      *)
(*              readings (SpecGenLive: the same with a clock that goes on) *)
(*   SpecCache  concurrent /upload and /clean-up requests and TTL timers   *)
(*              of the chunk server                                        *)
(*   Spec       concurrent requests to the files router                    *)
(*   SpecHappy  one client driving the multipart protocol on its happy     *)
(*              path through the files router                              *)
(*   SpecFields requests to the files router that lack a required field    *)
(*   SpecKey    deployments whose master key is too short, right or too    *)
(*              long; the others start from a key of the required length   *)
(*                                                                         *)
(* Time is counted in small integers.  TLC evaluates 32-bit integers, so   *)
(* the millisecond clock is measured from a base shortly before the custom *)
(* epoch: EPOCH is 2 in these units, and clock readings range over         *)
(* -2..MaxClock, which covers readings below the initial lastTimestamp     *)
(* (-1), equal to it, before the epoch, at it and after it.                *)
(***************************************************************************)
EXTENDS Integers, Sequences, FiniteSets, TLC

NULL == "null"

(***************************************************************************)
(* Bounds                                                                  *)
(***************************************************************************)
MaxClock == 4

\* concurrent requests in flight at the files router
MaxReq == 1

\* rows of the files table
MaxRows == 2

\* concurrent /upload requests at the chunk server
MaxUp == 2

\* S3 clients constructed by the chunk server
MaxClients == 2

\* the chunk server's clock, in units of half the cache TTL
MaxCacheTime == 3

ClockVals == (0 - 2)..MaxClock

UpReqs == 1..MaxUp

Reqs == 1..MaxReq

\* a missing number (undefined in a request, NULL in a column)
NoNum == 0 - 1

\* a missing key
NoKey == <<>>

(***************************************************************************)
(* BigInt bit operations (two's complement of unbounded width).            *)
(***************************************************************************)
RECURSIVE BitOr(_, _)
BitOr(a, b) ==
    IF a = 0 THEN b
    ELSE IF b = 0 THEN a
    ELSE IF a = 0 - 1 \/ b = 0 - 1 THEN 0 - 1
    ELSE 2 * BitOr(a \div 2, b \div 2)
           + (IF a % 2 = 1 \/ b % 2 = 1 THEN 1 ELSE 0)

RECURSIVE BitAnd(_, _)
BitAnd(a, b) ==
    IF a = 0 \/ b = 0 THEN 0
    ELSE IF a = 0 - 1 THEN b
    ELSE IF b = 0 - 1 THEN a
    ELSE 2 * BitAnd(a \div 2, b \div 2)
           + (IF a % 2 = 1 /\ b % 2 = 1 THEN 1 ELSE 0)

RECURSIVE BitXor(_, _)
BitXor(a, b) ==
    IF a = 0 THEN b
    ELSE IF b = 0 THEN a
    ELSE IF a = 0 - 1 /\ b = 0 - 1 THEN 0
    ELSE 2 * BitXor(a \div 2, b \div 2)
           + (IF (a % 2) # (b % 2) THEN 1 ELSE 0)

ShiftLeft(x, n) == x * (2 ^ n)

(***************************************************************************)
(* Snowflake constants, src/src/jose.ts:50-66                              *)
(***************************************************************************)
EPOCH == 2

WORKER_ID_BITS == 5

DATACENTER_ID_BITS == 5

SEQUENCE_BITS == 12

MAX_WORKER_ID == BitXor(0 - 1, ShiftLeft(0 - 1, WORKER_ID_BITS))

MAX_DATACENTER_ID == BitXor(0 - 1, ShiftLeft(0 - 1, DATACENTER_ID_BITS))

WORKER_ID_SHIFT == SEQUENCE_BITS

DATACENTER_ID_SHIFT == SEQUENCE_BITS + WORKER_ID_BITS

TIMESTAMP_SHIFT == SEQUENCE_BITS + WORKER_ID_BITS + DATACENTER_ID_BITS

\* The generator instance under study is built as getSnowflakeGenerator
\* builds its instances: workerId = 1, datacenterId = 1.
DefaultWorkerId == 1

DefaultDatacenterId == 1

VARIABLES
    \* one SnowflakeGenerator instance
    sequence,        \* private sequence
    lastTimestamp,   \* private lastTimestamp
    genPc,           \* "idle" | "tilNextMillis" (inside the busy-wait)
    genOut,          \* outcome of the latest nextId() call
    prevId,          \* {} or {the id returned by the successful call before}
    curId,           \* {} or {the id returned by the latest successful call}
    \* the files router
    now,             \* Date.now() of the worker, and the store's CURRENT_TIMESTAMP
    files,           \* the rows of the files table, in insertion order
    inflight,        \* per request slot: the request awaiting its backend response
    resp,            \* the latest request answered, with its response
    \* one client following the multipart protocol
    stage,           \* how far the client has come
    client,          \* what the client has learnt from the responses
    \* the chunk server
    cacheNow,        \* the chunk server's clock
    s3ClientCache,   \* uploadId -> {} or {the S3CacheEntry}
    s3Clients,       \* the S3Clients constructed so far, in order
    timers,          \* the pending setTimeout callbacks of setS3CacheEntry
    up,              \* per request slot: the /upload request and its await point
    upResp,          \* the latest answer of the chunk server
    \* the deployment
    masterKey        \* the length in bytes of the decoded master key

genVars == <<sequence, lastTimestamp, genPc, genOut, prevId, curId>>

filesVars == <<now, files, inflight, resp>>

clientVars == <<stage, client>>

cacheVars == <<cacheNow, s3ClientCache, s3Clients, timers, up, upResp>>

vars == <<sequence, lastTimestamp, genPc, genOut, prevId, curId,
          now, files, inflight, resp, stage, client,
          cacheNow, s3ClientCache, s3Clients, timers, up, upResp, masterKey>>

(***************************************************************************)
(* SnowflakeGenerator                                                      *)
(***************************************************************************)
\* a sequence update that never wraps
SeqIncrement_NoMask(s) == s + 1

\* the sequence update of the same-millisecond branch (jose.ts:117)
SeqIncrement(s) == BitAnd(s + 1, BitXor(0 - 1, ShiftLeft(0 - 1, SEQUENCE_BITS)))

\* an id assembled without the sequence
AssembleId_NoSequence(timestamp, dc, w, s) ==
    BitOr(BitOr(ShiftLeft(timestamp - EPOCH, TIMESTAMP_SHIFT),
                ShiftLeft(dc, DATACENTER_ID_SHIFT)),
          ShiftLeft(w, WORKER_ID_SHIFT))

\* an id whose datacenterId is shifted onto the workerId
AssembleId_Overlap(timestamp, dc, w, s) ==
    BitOr(BitOr(BitOr(ShiftLeft(timestamp - EPOCH, TIMESTAMP_SHIFT),
                      ShiftLeft(dc, WORKER_ID_SHIFT)),
                ShiftLeft(w, WORKER_ID_SHIFT)),
          s)

\* the id assembled at jose.ts:130-135
AssembleId(timestamp, dc, w, s) ==
    BitOr(BitOr(BitOr(ShiftLeft(timestamp - EPOCH, TIMESTAMP_SHIFT),
                      ShiftLeft(dc, DATACENTER_ID_SHIFT)),
                ShiftLeft(w, WORKER_ID_SHIFT)),
          s)

\* a nextId() without the clock-skew check of lines 111-113
NextIdOutcome_NoSkewCheck(seq, last, timestamp) ==
    IF last = timestamp
    THEN IF SeqIncrement(seq) = 0
         THEN [kind |-> "wait", seq |-> 0]
         ELSE [kind |-> "return", seq |-> SeqIncrement(seq)]
    ELSE [kind |-> "return", seq |-> 0]

\* nextId() for one clock reading, from its entry up to its return, its throw,
\* or its entry into the busy-wait (jose.ts:108-125): the outcome and the
\* sequence it leaves
NextIdOutcome(seq, last, timestamp) ==
    IF timestamp < last
    THEN [kind |-> "throw", seq |-> seq]
    ELSE IF last = timestamp
    THEN IF SeqIncrement(seq) = 0
         THEN [kind |-> "wait", seq |-> 0]
         ELSE [kind |-> "return", seq |-> SeqIncrement(seq)]
    ELSE [kind |-> "return", seq |-> 0]

\* nextId(), lines 127-135: store the timestamp, return the id
GenReturn(timestamp, s) ==
    /\ lastTimestamp' = timestamp
    /\ sequence' = s
    /\ genPc' = "idle"
    /\ genOut' = "returned"
    /\ prevId' = curId
    /\ curId' = {AssembleId(timestamp, DefaultDatacenterId, DefaultWorkerId, s)}

\* a nextId() call on the instance: it throws, returns, or enters the
\* busy-wait of tilNextMillis
NextIdCall ==
    /\ genPc = "idle"
    /\ \E timestamp \in ClockVals :
         LET o == NextIdOutcome(sequence, lastTimestamp, timestamp) IN
         CASE o.kind = "throw" ->
                /\ genOut' = "ClockSkew"
                /\ UNCHANGED <<sequence, lastTimestamp, genPc, prevId, curId>>
           [] o.kind = "wait" ->
                /\ sequence' = o.seq
                /\ genPc' = "tilNextMillis"
                /\ genOut' = "waiting"
                /\ UNCHANGED <<lastTimestamp, prevId, curId>>
           [] o.kind = "return" -> GenReturn(timestamp, o.seq)
    /\ UNCHANGED <<filesVars, clientVars, cacheVars, masterKey>>

\* a busy-wait that never reads the clock again
TilNextMillis_Spin ==
    /\ genPc = "tilNextMillis"
    /\ UNCHANGED genVars
    /\ UNCHANGED <<filesVars, clientVars, cacheVars, masterKey>>

\* one clock reading of tilNextMillis(this.lastTimestamp): the reading that
\* exceeds lastTimestamp ends the loop and nextId() returns
TilNextMillis ==
    /\ genPc = "tilNextMillis"
    /\ \E timestamp \in ClockVals :
         IF timestamp <= lastTimestamp
         THEN UNCHANGED genVars
         ELSE GenReturn(timestamp, sequence)
    /\ UNCHANGED <<filesVars, clientVars, cacheVars, masterKey>>

\* getSnowflakeGenerator({}): a new instance (sequence 0, lastTimestamp -1)
\* per call, and the first nextId() of that instance, as a decimal string.
\* The decimal string of a BigInt names the integer, which stands for it.
getSnowflakeGenerator(timestamp) ==
    LET o == NextIdOutcome(0, 0 - 1, timestamp) IN
    IF o.kind = "return"
    THEN AssembleId(timestamp, DefaultDatacenterId, DefaultWorkerId, o.seq)
    ELSE NoNum

(***************************************************************************)
(* The files router, src/unnamed/part_003:89-321                           *)
(*                                                                         *)
(* A handler whose awaits touch no shared state between them is one        *)
(* action.  A handler that calls the backend is two: it issues the signed  *)
(* call and waits in its slot of inflight; the arrival of the response and *)
(* the persistence write that follows it are its second action.            *)
(***************************************************************************)
\* the rows of s3_buckets: bucket 1 has a cdn_url, bucket 2 has none
Buckets == {1, 2}

\* the bucketId values of requests: 0 is a missing or non-numeric id, 3 the
\* id of no bucket
BucketInputs == {0, 1, 2, 3}

BucketRow(b) ==
    [id |-> b,
     name |-> IF b = 1 THEN "one" ELSE "two",
     endpoint |-> IF b = 1 THEN "https://s3.one" ELSE "https://s3.two",
     cdn_url |-> IF b = 1 THEN "https://cdn.one" ELSE NULL]

\* bucketConfig as the middleware builds it (lines 104-112)
BucketConfig(b) ==
    LET row == BucketRow(b) IN
    [id |-> row.id,
     name |-> row.name,
     endpoint |-> row.endpoint,
     cdnUrl |-> IF row.cdn_url # NULL
                THEN <<row.cdn_url>>
                ELSE <<row.endpoint, "/", row.name>>]

\* the status the middleware answers with: 200 stands for next()
Middleware(b) ==
    IF b < 1 THEN 400
    ELSE IF b \notin Buckets THEN 404
    ELSE 200

FileNames == {"report.pdf"}

ContentTypes == {"application/pdf"}

Sizes == {1024}

UploadIds == {"u1"}

ETags == {"e1", "e2"}

\* the file of a form: absent, or a File with name, type and size
NoFile == [name |-> NULL, type |-> NULL, size |-> NoNum]

FormFiles ==
    {[name |-> n, type |-> t, size |-> 2048] :
        n \in FileNames, t \in ContentTypes}

\* the parts field of a /multipart/complete body
PartsMissing == [present |-> FALSE, array |-> FALSE, items |-> <<>>]

PartsNotArray == [present |-> TRUE, array |-> FALSE, items |-> <<>>]

PartsEmpty == [present |-> TRUE, array |-> TRUE, items |-> <<>>]

PartsOf(e1, e2) ==
    [present |-> TRUE, array |-> TRUE,
     items |-> <<[PartNumber |-> 1, ETag |-> e1],
                 [PartNumber |-> 2, ETag |-> e2]>>]

PartsInputs ==
    {PartsMissing, PartsNotArray, PartsEmpty} \cup
    {PartsOf(e1, e2) : e1 \in ETags, e2 \in ETags}

\* `uploads/${Date.now()}-${fileName}`
Key(t, fileName) == <<"uploads/", t, "-", fileName>>

\* a final URL that is always built from the endpoint and the bucket name
FinalUrl_Endpoint(b, key) ==
    [base |-> <<BucketConfig(b).endpoint, "/", BucketConfig(b).name>>,
     sep |-> "/", key |-> key]

\* `${bucketConfig.cdnUrl}/${key}`
FinalUrl(b, key) == [base |-> BucketConfig(b).cdnUrl, sep |-> "/", key |-> key]

\* the <CompleteMultipartUpload> body built at lines 295-297
XmlBody(parts) ==
    [i \in DOMAIN parts.items |->
        <<"Part", parts.items[i].PartNumber, parts.items[i].ETag>>]

IdleReq ==
    [op |-> "idle", bucket |-> 0, fileId |-> NoNum, key |-> NoKey,
     fileName |-> NULL, contentType |-> NULL, size |-> NoNum,
     uploadId |-> NULL, parts |-> PartsMissing, body |-> <<>>]

\* the latest answered request: its inputs, whether it issued a backend call
\* (called), the backend's outcome, whether a persistence write of it was
\* applied (wrote) and whether one threw, the files table as the request found
\* it when it answered (prior), and the response
NoResp ==
    [op |-> "none", bucket |-> 0, fileId |-> NoNum, key |-> NoKey,
     fileName |-> NULL, contentType |-> NULL, size |-> NoNum,
     uploadId |-> NULL, parts |-> PartsMissing,
     called |-> FALSE, outcome |-> "none", wrote |-> FALSE, threw |-> FALSE,
     prior |-> <<>>, code |-> 0, success |-> FALSE,
     uploadUrl |-> <<>>, finalUrl |-> <<>>]

\* the response to request q: a success names the inputs of q it answers, a
\* failure only the operation and the fileId
RespOf(q) ==
    [NoResp EXCEPT !.op = q.op, !.bucket = q.bucket, !.fileId = q.fileId,
                   !.key = q.key, !.fileName = q.fileName,
                   !.contentType = q.contentType, !.size = q.size,
                   !.uploadId = q.uploadId]

FailureOf(q) == [NoResp EXCEPT !.op = q.op, !.fileId = q.fileId]

StatusesOf(rows, id) == {rows[i].status : i \in {j \in DOMAIN rows : rows[j].id = id}}

\* a request takes the first free slot
FreeSlot(r) ==
    /\ inflight[r].op = "idle"
    /\ \A r2 \in Reqs : r2 < r => inflight[r2].op # "idle"

\* rows still to come from the requests in flight, and room for one more
Inserting == {r \in Reqs : inflight[r].op \in {"upload", "mpInitiate"}}

RoomForRow == Len(files) + Cardinality(Inserting) < MaxRows

\* the store's CURRENT_TIMESTAMP: a time of the store's own clock, not NULL
CURRENT_TIMESTAMP == "timestamp"

\* INSERT INTO files (...) VALUES (..., status[, CURRENT_TIMESTAMP])
FileRow(id, key, fileName, size, contentType, b, status, completedAt) ==
    [id |-> id, key |-> key, file_name |-> fileName, size_bytes |-> size,
     content_type |-> contentType, bucket_name |-> BucketConfig(b).name,
     bucket_id |-> BucketConfig(b).id, status |-> status,
     completed_at |-> completedAt]

\* an UPDATE to failed without its WHERE clause
UpdateFailed_AllRows(id) ==
    [i \in DOMAIN files |-> [files[i] EXCEPT !.status = "failed"]]

\* UPDATE files SET status = 'failed' WHERE id = ?   (line 311)
UpdateFailed(id) ==
    [i \in DOMAIN files |->
        IF files[i].id = id
        THEN [files[i] EXCEPT !.status = "failed"]
        ELSE files[i]]

\* an UPDATE that forgets size_bytes
UpdateCompleted_StatusOnly(id, sizeBytes) ==
    [i \in DOMAIN files |->
        IF files[i].id = id
        THEN [files[i] EXCEPT !.status = "completed",
                              !.completed_at = CURRENT_TIMESTAMP]
        ELSE files[i]]

\* UPDATE files SET status = 'completed', completed_at = CURRENT_TIMESTAMP,
\* size_bytes = ? WHERE id = ?   (lines 316-318)
UpdateCompleted(id, sizeBytes) ==
    [i \in DOMAIN files |->
        IF files[i].id = id
        THEN [files[i] EXCEPT !.status = "completed",
                              !.completed_at = CURRENT_TIMESTAMP,
                              !.size_bytes = sizeBytes]
        ELSE files[i]]

\* the two milliseconds of the files router's clock: requests fall into the
\* same millisecond or into different ones
ClockStart == EPOCH + 1

ClockEnd == ClockStart + 1

\* a request stopped by the middleware (lines 91-102)
MiddlewareReject(op, b) ==
    /\ Middleware(b) # 200
    /\ resp' = [NoResp EXCEPT !.op = op, !.prior = files,
                              !.code = Middleware(b)]
    /\ UNCHANGED <<now, files, inflight>>

Tick ==
    /\ now < ClockEnd
    /\ now' = now + 1
    /\ UNCHANGED <<files, inflight, resp>>

\* a request answered 400 by the check of its fields
Rejected(op, b) ==
    [NoResp EXCEPT !.op = op, !.prior = files, !.code = 400]

\* a thrown error that is swallowed and answered as a success
Unhandled_Swallowed(q, called, outcome) ==
    [FailureOf(q) EXCEPT !.called = called, !.outcome = outcome,
                         !.threw = TRUE, !.prior = files, !.code = 200,
                         !.success = TRUE]

\* a handler that throws is answered by the framework with status 500
Unhandled(q, called, outcome) ==
    [FailureOf(q) EXCEPT !.called = called, !.outcome = outcome,
                         !.threw = TRUE, !.prior = files, !.code = 500]

\* ---- POST /upload, lines 130-176 ----
UploadReq(b, file) ==
    [IdleReq EXCEPT !.op = "upload", !.bucket = b,
                    !.fileId = getSnowflakeGenerator(now),
                    !.key = Key(now, file.name), !.fileName = file.name,
                    !.contentType = file.type, !.size = file.size]

\* an /upload that records every answer of the backend as completed
UploadStatus_AlwaysCompleted(outcome) == "completed"

\* the status of the row /upload inserts in its try block (lines 154-165)
UploadStatus(outcome) == IF outcome = "ok" THEN "completed" ELSE "failed"

UploadRow(q, status) ==
    FileRow(q.fileId, q.key, q.fileName, q.size, q.contentType, q.bucket,
            status, IF status = "completed" THEN CURRENT_TIMESTAMP ELSE NULL)

\* the catch block, lines 168-175: one INSERT of a failed row, which is
\* applied or throws
UploadCatch(q, called, outcome, threwBefore, DbOks) ==
    \E dbOk \in DbOks :
       /\ files' = IF dbOk THEN Append(files, UploadRow(q, "failed")) ELSE files
       /\ resp' = [FailureOf(q) EXCEPT
                                   !.called = called, !.outcome = outcome,
                                   !.wrote = dbOk,
                                   !.threw = threwBefore \/ ~dbOk,
                                   !.prior = files, !.code = 500]

\* lines 131-151: the form is read, key and fileid are made, the PUT is
\* signed and issued; a throwing sign goes to the catch block
UploadStart(r, b, file, SignOks, DbOks) ==
    /\ FreeSlot(r)
    /\ Middleware(b) = 200
    /\ IF file = NoFile
       THEN /\ resp' = Rejected("upload", b)
            /\ UNCHANGED <<files, inflight>>
       ELSE /\ RoomForRow
            /\ \E signOk \in SignOks :
                 IF signOk
                 THEN /\ inflight' = [inflight EXCEPT ![r] = UploadReq(b, file)]
                      /\ UNCHANGED <<files, resp>>
                 ELSE /\ UploadCatch(UploadReq(b, file), FALSE, "signThrew",
                                     FALSE, DbOks)
                      /\ UNCHANGED inflight
    /\ UNCHANGED now

\* lines 152-175: the response of the backend (or the throw of fetch), the
\* INSERT of the try block and, when anything threw, that of the catch block
UploadFinish(r, Outcomes, DbOks) ==
    LET q == inflight[r] IN
    /\ q.op = "upload"
    /\ \E outcome \in Outcomes :
         IF outcome = "threw"
         THEN UploadCatch(q, TRUE, outcome, FALSE, DbOks)
         ELSE \E db1Ok \in DbOks :
                IF ~db1Ok
                THEN UploadCatch(q, TRUE, outcome, TRUE, DbOks)
                ELSE /\ files' = Append(files,
                                        UploadRow(q, UploadStatus(outcome)))
                     /\ resp' = IF outcome = "ok"
                                THEN [RespOf(q) EXCEPT
                                        !.called = TRUE, !.outcome = outcome,
                                        !.wrote = TRUE, !.prior = files,
                                        !.code = 200, !.success = TRUE,
                                        !.finalUrl = FinalUrl(q.bucket, q.key)]
                                ELSE [FailureOf(q) EXCEPT
                                        !.called = TRUE, !.outcome = outcome,
                                        !.wrote = TRUE, !.prior = files,
                                        !.code = 500]
    /\ inflight' = [inflight EXCEPT ![r] = IdleReq]
    /\ UNCHANGED now

\* ---- POST /presign, lines 179-208 ----
Presign(b, body, SignOks) ==
    /\ Middleware(b) = 200
    /\ IF body.fileName = NULL \/ body.contentType = NULL
       THEN resp' = Rejected("presign", b)
       ELSE LET q == [IdleReq EXCEPT
                         !.op = "presign", !.bucket = b,
                         !.fileName = body.fileName,
                         !.contentType = body.contentType,
                         !.key = Key(now, body.fileName),
                         !.fileId = getSnowflakeGenerator(now)]
            IN \E signOk \in SignOks :
                 IF ~signOk
                 THEN resp' = Unhandled(q, FALSE, "signThrew")
                 ELSE resp' = [RespOf(q) EXCEPT
                                 !.prior = files, !.code = 200, !.success = TRUE,
                                 !.uploadUrl = <<BucketConfig(b).endpoint, "/",
                                                 BucketConfig(b).name, "/", q.key,
                                                 "X-Amz-Expires", "360">>,
                                 !.finalUrl = FinalUrl(b, q.key)]
    /\ UNCHANGED <<now, files, inflight>>

\* a /complete that stores its record as pending
CompleteRow_Pending(b, body) ==
    FileRow(body.fileId, body.key, body.fileName, body.sizeBytes,
            body.contentType, b, "pending", NULL)

\* ---- POST /complete, lines 211-225 ----
CompleteRow(b, body) ==
    FileRow(body.fileId, body.key, body.fileName, body.sizeBytes,
            body.contentType, b, "completed", CURRENT_TIMESTAMP)

\* the check of line 215: TRUE when the body is accepted
CompleteValid(body) ==
    ~ (\/ body.fileId = NoNum \/ body.key = NoKey \/ body.fileName = NULL
       \/ body.sizeBytes = NoNum \/ body.sizeBytes = 0
       \/ body.contentType = NULL)

Complete(b, body, DbOks) ==
    LET q == [IdleReq EXCEPT !.op = "complete", !.bucket = b,
                             !.fileId = body.fileId, !.key = body.key,
                             !.fileName = body.fileName,
                             !.size = body.sizeBytes,
                             !.contentType = body.contentType]
    IN
    /\ Middleware(b) = 200
    /\ IF ~CompleteValid(body)
       THEN /\ resp' = Rejected("complete", b)
            /\ UNCHANGED files
       ELSE /\ RoomForRow
            /\ \E dbOk \in DbOks :
                 IF dbOk
                 THEN /\ files' = Append(files, CompleteRow(b, body))
                      /\ resp' = [RespOf(q) EXCEPT
                                    !.wrote = TRUE, !.prior = files,
                                    !.code = 200, !.success = TRUE]
                 ELSE /\ resp' = Unhandled(q, FALSE, "none")
                      /\ UNCHANGED files
    /\ UNCHANGED <<now, inflight>>

\* ---- POST /multipart/initiate, lines 231-262 ----
MpInitiateReq(b, body) ==
    [IdleReq EXCEPT !.op = "mpInitiate", !.bucket = b,
                    !.fileId = getSnowflakeGenerator(now),
                    !.key = Key(now, body.fileName),
                    !.fileName = body.fileName,
                    !.contentType = body.contentType]

\* lines 232-245: key and fileId are made, the POST ?uploads is signed and
\* issued
MpInitiateStart(r, b, body, SignOks) ==
    /\ FreeSlot(r)
    /\ Middleware(b) = 200
    /\ RoomForRow
    /\ \E signOk \in SignOks :
         IF signOk
         THEN /\ inflight' = [inflight EXCEPT ![r] = MpInitiateReq(b, body)]
              /\ UNCHANGED resp
         ELSE /\ resp' = Unhandled(MpInitiateReq(b, body), FALSE, "signThrew")
              /\ UNCHANGED inflight
    /\ UNCHANGED <<now, files>>

\* the pending row of lines 256-259
PendingRow(q) ==
    FileRow(q.fileId, q.key, q.fileName, NoNum, q.contentType, q.bucket,
            "pending", NULL)

\* lines 245-261: the response of the backend, its UploadId, the INSERT of the
\* pending row
MpInitiateFinish(r, Outcomes, DbOks) ==
    LET q == inflight[r] IN
    /\ q.op = "mpInitiate"
    /\ \E outcome \in Outcomes :
         CASE outcome = "threw" ->
                /\ resp' = Unhandled(q, TRUE, outcome)
                /\ UNCHANGED files
           [] outcome = "notOk" ->
                /\ resp' = [FailureOf(q) EXCEPT
                              !.called = TRUE, !.outcome = outcome,
                              !.prior = files, !.code = 500]
                /\ UNCHANGED files
           [] outcome = "ok" ->
                \E uploadId \in UploadIds, dbOk \in DbOks :
                   IF dbOk
                   THEN /\ files' = Append(files, PendingRow(q))
                        /\ resp' = [RespOf(q) EXCEPT
                                      !.called = TRUE, !.outcome = outcome,
                                      !.wrote = TRUE, !.prior = files,
                                      !.uploadId = uploadId,
                                      !.code = 200, !.success = TRUE]
                   ELSE /\ resp' = Unhandled(q, TRUE, outcome)
                        /\ UNCHANGED files
    /\ inflight' = [inflight EXCEPT ![r] = IdleReq]
    /\ UNCHANGED now

\* ---- POST /multipart/presign, lines 265-282 ----
MpPresign(b, body, SignOks) ==
    LET q == [IdleReq EXCEPT !.op = "mpPresign", !.bucket = b,
                             !.key = body.key, !.uploadId = body.uploadId]
    IN
    /\ Middleware(b) = 200
    /\ IF \/ body.key = NoKey \/ body.uploadId = NULL
          \/ body.partNumber = NoNum \/ body.partNumber = 0
       THEN resp' = Rejected("mpPresign", b)
       ELSE \E signOk \in SignOks :
              IF ~signOk
              THEN resp' = Unhandled(q, FALSE, "signThrew")
              ELSE resp' = [RespOf(q) EXCEPT
                              !.prior = files, !.code = 200, !.success = TRUE,
                              !.uploadUrl = <<BucketConfig(b).endpoint, "/",
                                              BucketConfig(b).name, "/",
                                              body.key,
                                              "uploadId", body.uploadId,
                                              "partNumber", body.partNumber,
                                              "X-Amz-Expires", "360">>]
    /\ UNCHANGED <<now, files, inflight>>

\* ---- POST /multipart/complete, lines 285-321 ----
MpCompleteReq(b, body) ==
    [IdleReq EXCEPT !.op = "mpComplete", !.bucket = b,
                    !.fileId = body.fileId, !.key = body.key,
                    !.uploadId = body.uploadId, !.parts = body.parts,
                    !.size = body.sizeBytes, !.body = XmlBody(body.parts)]

\* the check of line 290: TRUE when the body is accepted
MpCompleteValid(body) ==
    ~ (\/ body.fileId = NoNum \/ body.key = NoKey \/ body.uploadId = NULL
       \/ ~body.parts.present \/ ~body.parts.array)

\* lines 286-306: the body is checked, the manifest built, the POST signed
\* and issued
MpCompleteStart(r, b, body, SignOks) ==
    /\ FreeSlot(r)
    /\ Middleware(b) = 200
    /\ IF ~MpCompleteValid(body)
       THEN /\ resp' = [Rejected("mpComplete", b) EXCEPT !.parts = body.parts]
            /\ UNCHANGED inflight
       ELSE \E signOk \in SignOks :
              IF ~signOk
              THEN /\ resp' = Unhandled(MpCompleteReq(b, body), FALSE,
                                        "signThrew")
                   /\ UNCHANGED inflight
              ELSE /\ inflight' = [inflight EXCEPT
                                     ![r] = MpCompleteReq(b, body)]
                   /\ UNCHANGED resp
    /\ UNCHANGED <<now, files>>

\* lines 306-320: the response of the backend and the UPDATE that follows it
MpCompleteFinish(r, Outcomes, DbOks) ==
    LET q == inflight[r] IN
    /\ q.op = "mpComplete"
    /\ \E outcome \in Outcomes :
         IF outcome = "threw"
         THEN /\ resp' = Unhandled(q, TRUE, outcome)
              /\ UNCHANGED files
         ELSE \E dbOk \in DbOks :
                IF ~dbOk
                THEN /\ resp' = Unhandled(q, TRUE, outcome)
                     /\ UNCHANGED files
                ELSE IF outcome = "notOk"
                THEN /\ files' = UpdateFailed(q.fileId)
                     /\ resp' = [FailureOf(q) EXCEPT
                                   !.called = TRUE, !.outcome = outcome,
                                   !.wrote = TRUE, !.prior = files,
                                   !.code = 500]
                ELSE /\ files' = UpdateCompleted(q.fileId, q.size)
                     /\ resp' = [RespOf(q) EXCEPT
                                   !.called = TRUE, !.outcome = outcome,
                                   !.wrote = TRUE, !.prior = files,
                                   !.code = 200, !.success = TRUE,
                                   !.finalUrl = FinalUrl(q.bucket, q.key)]
    /\ inflight' = [inflight EXCEPT ![r] = IdleReq]
    /\ UNCHANGED now

(***************************************************************************)
(* The requests the clients may send                                       *)
(***************************************************************************)
Outcomes3 == {"ok", "notOk", "threw"}

\* a fileId with its key as /presign, /upload or /multipart/initiate may have
\* returned them by now
IdKeys ==
    {<<getSnowflakeGenerator(t), Key(t, n)>> :
        t \in ClockStart..now, n \in FileNames}

\* a body with all its fields, and the bodies that lack one of them
PresignBodies ==
    {[fileName |-> n, contentType |-> t] : n \in FileNames, t \in ContentTypes}
    \cup {[fileName |-> NULL, contentType |-> "application/pdf"],
          [fileName |-> "report.pdf", contentType |-> NULL]}

CompleteBodies ==
    LET full == {[fileId |-> ik[1], key |-> ik[2], fileName |-> n,
                  sizeBytes |-> z, contentType |-> t] :
                    ik \in IdKeys, n \in FileNames, z \in Sizes,
                    t \in ContentTypes}
        one == CHOOSE x \in full : TRUE
    IN full \cup {[one EXCEPT !.fileId = NoNum], [one EXCEPT !.key = NoKey],
                  [one EXCEPT !.fileName = NULL],
                  [one EXCEPT !.sizeBytes = NoNum],
                  [one EXCEPT !.sizeBytes = 0],
                  [one EXCEPT !.contentType = NULL]}

MpPresignBodies ==
    LET full == {[key |-> ik[2], uploadId |-> u, partNumber |-> n] :
                    ik \in IdKeys, u \in UploadIds, n \in {1}}
        one == CHOOSE x \in full : TRUE
    IN full \cup {[one EXCEPT !.key = NoKey], [one EXCEPT !.uploadId = NULL],
                  [one EXCEPT !.partNumber = NoNum],
                  [one EXCEPT !.partNumber = 0]}

MpCompleteBodies ==
    LET full == {[fileId |-> ik[1], key |-> ik[2], uploadId |-> u,
                  parts |-> p, sizeBytes |-> z] :
                    ik \in IdKeys, u \in UploadIds,
                    p \in {PartsEmpty, PartsOf("e1", "e2")}, z \in Sizes}
        one == CHOOSE x \in full : TRUE
    IN full \cup {[one EXCEPT !.fileId = NoNum], [one EXCEPT !.key = NoKey],
                  [one EXCEPT !.uploadId = NULL],
                  [one EXCEPT !.parts = PartsMissing],
                  [one EXCEPT !.parts = PartsNotArray]}

MpInitiateBodies ==
    {[fileName |-> n, contentType |-> t] : n \in FileNames, t \in ContentTypes}

DoTick == Tick /\ UNCHANGED <<genVars, clientVars, cacheVars, masterKey>>

DoMiddlewareReject ==
    /\ \E op \in {"upload", "mpComplete"}, b \in BucketInputs :
          MiddlewareReject(op, b)
    /\ UNCHANGED <<genVars, clientVars, cacheVars, masterKey>>

DoUploadStart ==
    /\ \E r \in Reqs, b \in Buckets, file \in FormFiles \cup {NoFile} :
          UploadStart(r, b, file, BOOLEAN, BOOLEAN)
    /\ UNCHANGED <<genVars, clientVars, cacheVars, masterKey>>

DoUploadFinish ==
    /\ \E r \in Reqs : UploadFinish(r, Outcomes3, BOOLEAN)
    /\ UNCHANGED <<genVars, clientVars, cacheVars, masterKey>>

DoPresign ==
    /\ \E b \in Buckets, body \in PresignBodies : Presign(b, body, BOOLEAN)
    /\ UNCHANGED <<genVars, clientVars, cacheVars, masterKey>>

DoComplete ==
    /\ \E b \in Buckets, body \in CompleteBodies : Complete(b, body, BOOLEAN)
    /\ UNCHANGED <<genVars, clientVars, cacheVars, masterKey>>

DoMpInitiateStart ==
    /\ \E r \in Reqs, b \in Buckets, body \in MpInitiateBodies :
          MpInitiateStart(r, b, body, BOOLEAN)
    /\ UNCHANGED <<genVars, clientVars, cacheVars, masterKey>>

DoMpInitiateFinish ==
    /\ \E r \in Reqs : MpInitiateFinish(r, Outcomes3, BOOLEAN)
    /\ UNCHANGED <<genVars, clientVars, cacheVars, masterKey>>

DoMpPresign ==
    /\ \E b \in Buckets, body \in MpPresignBodies : MpPresign(b, body, BOOLEAN)
    /\ UNCHANGED <<genVars, clientVars, cacheVars, masterKey>>

DoMpCompleteStart ==
    /\ \E r \in Reqs, b \in Buckets, body \in MpCompleteBodies :
          MpCompleteStart(r, b, body, BOOLEAN)
    /\ UNCHANGED <<genVars, clientVars, cacheVars, masterKey>>

DoMpCompleteFinish ==
    /\ \E r \in Reqs : MpCompleteFinish(r, Outcomes3, BOOLEAN)
    /\ UNCHANGED <<genVars, clientVars, cacheVars, masterKey>>

(***************************************************************************)
(* One client on the happy path of the multipart protocol: initiate, two   *)
(* presigned parts, the two parts uploaded, complete; every signing, every *)
(* backend call and every persistence write succeeds.                      *)
(***************************************************************************)
NoClient ==
    [bucket |-> 0, fileId |-> NoNum, key |-> NoKey, uploadId |-> NULL,
     urls |-> <<>>, parts |-> PartsMissing, size |-> NoNum]

HappyInitiate ==
    /\ stage = 0
    /\ \E b \in Buckets, body \in MpInitiateBodies :
          /\ MpInitiateStart(1, b, body, {TRUE})
          /\ client' = [client EXCEPT !.bucket = b]
    /\ stage' = 1
    /\ UNCHANGED <<genVars, cacheVars, masterKey>>

HappyInitiated ==
    /\ stage = 1
    /\ MpInitiateFinish(1, {"ok"}, {TRUE})
    /\ client' = [client EXCEPT !.fileId = resp'.fileId, !.key = resp'.key,
                                !.uploadId = resp'.uploadId]
    /\ stage' = 2
    /\ UNCHANGED <<genVars, cacheVars, masterKey>>

HappyPresignPart ==
    /\ stage \in {2, 3}
    /\ MpPresign(client.bucket,
                 [key |-> client.key, uploadId |-> client.uploadId,
                  partNumber |-> stage - 1], {TRUE})
    /\ client' = [client EXCEPT !.urls = Append(@, resp'.uploadUrl)]
    /\ stage' = stage + 1
    /\ UNCHANGED <<genVars, cacheVars, masterKey>>

\* the client PUTs its two parts to the two signed URLs; the backend answers
\* each with an ETag
HappyUploadParts ==
    /\ stage = 4
    /\ Len(client.urls) = 2
    /\ \E e1 \in ETags, e2 \in ETags :
          client' = [client EXCEPT !.parts = PartsOf(e1, e2)]
    /\ stage' = 5
    /\ UNCHANGED <<genVars, filesVars, cacheVars, masterKey>>

HappyComplete ==
    /\ stage = 5
    /\ \E sizeBytes \in Sizes \cup {2048} :
          /\ MpCompleteStart(1, client.bucket,
                             [fileId |-> client.fileId, key |-> client.key,
                              uploadId |-> client.uploadId,
                              parts |-> client.parts, sizeBytes |-> sizeBytes],
                             {TRUE})
          /\ client' = [client EXCEPT !.size = sizeBytes]
    /\ stage' = 6
    /\ UNCHANGED <<genVars, cacheVars, masterKey>>

HappyCompleted ==
    /\ stage = 6
    /\ MpCompleteFinish(1, {"ok"}, {TRUE})
    /\ stage' = 7
    /\ UNCHANGED <<genVars, client, cacheVars, masterKey>>

(***************************************************************************)
(* The chunk server (part_001, lines 1-269): /upload sends one part       *)
(* through an S3Client kept in s3ClientCache under the uploadId, /clean-up *)
(* removes the entry, and every setS3CacheEntry leaves a timer behind.     *)
(***************************************************************************)
\* 10 * 60 * 1000 ms, in the units of cacheNow
CLIENT_CACHE_TTL_MS == 2

\* the length a master key must have (part_001:57, jose.ts:20)
KEY_BYTES == 32

Sessions == {"u1", "u2"}

\* verifyPasetoToken (lines 21-37): the payload, or null when verify throws
verifyPasetoToken(token) == IF token = "valid" THEN "payload" ELSE NULL

\* the s3config tokens a form can carry
S3Configs ==
    {"tokA", "tokB", "tokBad", "tokCorrupt", "tokCorruptSecret", "tokEmpty"}

NoConfig == [null |-> TRUE]

ConfigOf(name, accessKey, secretKey, cdnUrl) ==
    [name |-> name, region |-> "auto", endpoint |-> <<"https://s3.", name>>,
     accessKey |-> accessKey, secretKey |-> secretKey, cdnUrl |-> cdnUrl]

\* a decryptToken that hands out a configuration for a token it cannot decrypt
decryptToken_Any(token) ==
    CASE token = "tokB" -> ConfigOf("b", "jweAccessB", "jweSecretB", NULL)
      [] OTHER -> ConfigOf("a", "jweAccessA", "jweSecretA", "https://cdn.a")

\* decryptToken (lines 40-53): the payload, or null when decrypt throws
decryptToken(token) ==
    CASE token = "tokA" -> ConfigOf("a", "jweAccessA", "jweSecretA", "https://cdn.a")
      [] token = "tokB" -> ConfigOf("b", "jweAccessB", "jweSecretB", NULL)
      [] token = "tokCorrupt" -> ConfigOf("a", "jweCorrupt", "jweSecretA", NULL)
      [] token = "tokCorruptSecret" ->
             ConfigOf("a", "jweAccessA", "jweCorrupt", NULL)
      [] token = "tokEmpty" -> ConfigOf("a", "jweAccessA", "jweEmpty", NULL)
      [] OTHER -> NoConfig

\* decryptSecret (lines 84-93): the plaintext, or the throw of line 91
decryptSecret(jwe) ==
    CASE jwe = "jweAccessA" -> [threw |-> FALSE, plaintext |-> "AKIA-A"]
      [] jwe = "jweSecretA" -> [threw |-> FALSE, plaintext |-> "secret-A"]
      [] jwe = "jweAccessB" -> [threw |-> FALSE, plaintext |-> "AKIA-B"]
      [] jwe = "jweSecretB" -> [threw |-> FALSE, plaintext |-> "secret-B"]
      [] jwe = "jweEmpty" -> [threw |-> FALSE, plaintext |-> ""]
      [] OTHER -> [threw |-> TRUE, plaintext |-> NULL]

\* new S3Client({region, endpoint, credentials, forcePathStyle}), lines 203-211
NewS3Client(config, accessKeyId, secretAccessKey) ==
    [region |-> config.region, endpoint |-> config.endpoint,
     accessKeyId |-> accessKeyId, secretAccessKey |-> secretAccessKey,
     destroyed |-> 0]

\* a destroy that releases the client's resources twice
Destroy_Twice(clients, id) == [clients EXCEPT ![id].destroyed = @ + 2]

\* client.destroy()
Destroy(clients, id) == [clients EXCEPT ![id].destroyed = @ + 1]

\* a lookup that never finds an entry
getS3CacheEntry_Miss(uploadId) == {}

\* getS3CacheEntry (lines 104-106): {} for undefined
getS3CacheEntry(uploadId) == s3ClientCache[uploadId]

\* setS3CacheEntry (lines 108-119): the entry replaces what the key held and
\* one more timer is set
setS3CacheEntry(cache, uploadId, id, config) ==
    [cache EXCEPT ![uploadId] = {[client |-> id, config |-> config]}]

\* the timer of one setS3CacheEntry call, with the time of the call and the
\* client of the entry the call stored
TimerOf(uploadId, id) ==
    [uploadId |-> uploadId, due |-> cacheNow + CLIENT_CACHE_TTL_MS,
     entry |-> id, set |-> cacheNow]

\* an eviction that destroys the client and leaves the entry in the map
Evict_NoDelete(uploadId) ==
    IF s3ClientCache[uploadId] = {}
    THEN UNCHANGED <<s3ClientCache, s3Clients>>
    ELSE /\ s3Clients' = LET e == CHOOSE x \in s3ClientCache[uploadId] : TRUE
                         IN Destroy(s3Clients, e.client)
         /\ UNCHANGED s3ClientCache

\* removeS3Client (lines 121-128) and the timer's callback (lines 111-118):
\* whatever entry the key holds now is destroyed and deleted
Evict(uploadId) ==
    IF s3ClientCache[uploadId] = {}
    THEN UNCHANGED <<s3ClientCache, s3Clients>>
    ELSE /\ s3Clients' = LET e == CHOOSE x \in s3ClientCache[uploadId] : TRUE
                         IN Destroy(s3Clients, e.client)
         /\ s3ClientCache' = [s3ClientCache EXCEPT ![uploadId] = {}]

IdleUp ==
    [pc |-> "idle", uploadId |-> NULL, s3config |-> NULL, s3 |-> 0,
     bucketConfig |-> NoConfig, access |-> NULL]

NoUpResp ==
    [op |-> "none", code |-> 0, success |-> FALSE, uploadId |-> NULL,
     s3 |-> 0, bucket |-> NULL, cdnUrl |-> <<>>]

UpAnswer(op, code) == [NoUpResp EXCEPT !.op = op, !.code = code]

\* the form of an /upload request: complete, or one field missing, or the
\* chunk a string
FullForm(uploadId, s3config) ==
    [uploadId |-> uploadId, key |-> "k", partNumber |-> 1, chunk |-> "Blob",
     s3config |-> s3config]

Forms ==
    {FullForm(u, t) : u \in Sessions, t \in {"tokA", "tokB"}}
      \cup {FullForm("u1", t) : t \in S3Configs}
      \cup {[FullForm("u1", "tokA") EXCEPT !.uploadId = NULL],
            [FullForm("u1", "tokA") EXCEPT !.partNumber = 0],
            [FullForm("u1", "tokA") EXCEPT !.s3config = NULL],
            [FullForm("u1", "tokA") EXCEPT !.chunk = "string"]}

\* a check of the form that also refuses a token that does not decrypt
FormIncomplete_TokenChecked(form) ==
    \/ form.uploadId = NULL \/ form.key = NULL \/ form.partNumber = 0
    \/ form.chunk = NULL \/ form.s3config = NULL
    \/ decryptToken(form.s3config) = NoConfig

\* the check of line 171: TRUE when a field is missing
FormIncomplete(form) ==
    \/ form.uploadId = NULL \/ form.key = NULL \/ form.partNumber = 0
    \/ form.chunk = NULL \/ form.s3config = NULL

\* the requests between the cache miss of line 187 and line 213
InLoader == {r \in UpReqs :
               up[r].pc \in {"decryptToken", "decryptAccess", "decryptSecret"}}

RoomForClient == Len(s3Clients) + Cardinality(InLoader) < MaxClients

FreeUp(r) ==
    /\ up[r].pc = "idle"
    /\ \A r2 \in UpReqs : r2 < r => up[r2].pc # "idle"

\* lines 150-158: the header is read and verifyPasetoToken is awaited
UploadBegin(r, hasToken) ==
    /\ FreeUp(r)
    /\ IF ~hasToken
       THEN /\ upResp' = UpAnswer("upload", 401)
            /\ UNCHANGED up
       ELSE /\ up' = [up EXCEPT ![r].pc = "verifyPasetoToken"]
            /\ UNCHANGED upResp
    /\ UNCHANGED <<cacheNow, s3ClientCache, s3Clients, timers>>

\* lines 158-164: the verdict on the token; c.req.formData() is awaited
UploadVerified(r, token) ==
    /\ up[r].pc = "verifyPasetoToken"
    /\ IF verifyPasetoToken(token) = NULL
       THEN /\ upResp' = UpAnswer("upload", 401)
            /\ up' = [up EXCEPT ![r] = IdleUp]
       ELSE /\ up' = [up EXCEPT ![r].pc = "formData"]
            /\ UNCHANGED upResp
    /\ UNCHANGED <<cacheNow, s3ClientCache, s3Clients, timers>>

\* lines 221-235: the part is sent through the request's client
SendPart(r, uploadId, s3, bucketConfig) ==
    IF s3 = 0 \/ bucketConfig = NoConfig
    THEN /\ upResp' = UpAnswer("upload", 500)
         /\ up' = [up EXCEPT ![r] = IdleUp]
    ELSE /\ up' = [up EXCEPT ![r] = [IdleUp EXCEPT
                                       !.pc = "send", !.uploadId = uploadId,
                                       !.s3 = s3,
                                       !.bucketConfig = bucketConfig]]
         /\ UNCHANGED upResp

\* lines 164-190 and 214-235: the form is checked and the cache is looked
\* up; on a miss decryptToken is awaited, on a hit the part is sent
UploadForm(r, form) ==
    /\ up[r].pc = "formData"
    /\ IF FormIncomplete(form) \/ form.chunk # "Blob"
       THEN /\ upResp' = UpAnswer("upload", 400)
            /\ up' = [up EXCEPT ![r] = IdleUp]
       ELSE LET cachedEntry == getS3CacheEntry(form.uploadId) IN
            IF cachedEntry = {}
            THEN /\ RoomForClient
                 /\ up' = [up EXCEPT ![r] = [IdleUp EXCEPT
                                               !.pc = "decryptToken",
                                               !.uploadId = form.uploadId,
                                               !.s3config = form.s3config]]
                 /\ UNCHANGED upResp
            ELSE LET e == CHOOSE x \in cachedEntry : TRUE
                 IN SendPart(r, form.uploadId, e.client, e.config)
    /\ UNCHANGED <<cacheNow, s3ClientCache, s3Clients, timers>>

\* lines 190-196: the config of the token; decryptSecret(accessKey) is awaited
UploadTokenDecrypted(r) ==
    /\ up[r].pc = "decryptToken"
    /\ LET bucketConfig == decryptToken(up[r].s3config) IN
       IF bucketConfig = NoConfig
       THEN /\ upResp' = UpAnswer("upload", 400)
            /\ up' = [up EXCEPT ![r] = IdleUp]
       ELSE /\ up' = [up EXCEPT ![r].pc = "decryptAccess",
                                ![r].bucketConfig = bucketConfig]
            /\ UNCHANGED upResp
    /\ UNCHANGED <<cacheNow, s3ClientCache, s3Clients, timers>>

\* lines 196-197: the access key; decryptSecret(secretKey) is awaited
UploadAccessDecrypted(r) ==
    /\ up[r].pc = "decryptAccess"
    /\ LET res == decryptSecret(up[r].bucketConfig.accessKey) IN
       IF res.threw
       THEN /\ upResp' = UpAnswer("upload", 500)
            /\ up' = [up EXCEPT ![r] = IdleUp]
       ELSE /\ up' = [up EXCEPT ![r].pc = "decryptSecret",
                                ![r].access = res.plaintext]
            /\ UNCHANGED upResp
    /\ UNCHANGED <<cacheNow, s3ClientCache, s3Clients, timers>>

\* lines 197-235: the secret key; the client is constructed and stored under
\* the uploadId, and the part is sent through it
UploadSecretDecrypted(r) ==
    /\ up[r].pc = "decryptSecret"
    /\ LET res == decryptSecret(up[r].bucketConfig.secretKey)
           id == Len(s3Clients) + 1
       IN
       IF res.threw
       THEN /\ upResp' = UpAnswer("upload", 500)
            /\ up' = [up EXCEPT ![r] = IdleUp]
            /\ UNCHANGED <<s3ClientCache, s3Clients, timers>>
       ELSE IF up[r].access = "" \/ res.plaintext = ""
       THEN /\ upResp' = UpAnswer("upload", 400)
            /\ up' = [up EXCEPT ![r] = IdleUp]
            /\ UNCHANGED <<s3ClientCache, s3Clients, timers>>
       ELSE /\ s3Clients' = Append(s3Clients,
                                   NewS3Client(up[r].bucketConfig,
                                               up[r].access, res.plaintext))
            /\ s3ClientCache' = setS3CacheEntry(s3ClientCache, up[r].uploadId,
                                                id, up[r].bucketConfig)
            /\ timers' = timers \cup {TimerOf(up[r].uploadId, id)}
            /\ SendPart(r, up[r].uploadId, id, up[r].bucketConfig)
    /\ UNCHANGED cacheNow

\* lines 226-247: the answer of s3.send: an ETag, none, or a throw
UploadSent(r, outcome) ==
    /\ up[r].pc = "send"
    /\ upResp' = IF outcome = "etag"
                 THEN [NoUpResp EXCEPT
                         !.op = "upload", !.code = 200, !.success = TRUE,
                         !.uploadId = up[r].uploadId, !.s3 = up[r].s3,
                         !.bucket = up[r].bucketConfig.name,
                         !.cdnUrl = IF up[r].bucketConfig.cdnUrl = NULL
                                    THEN <<>>
                                    ELSE <<up[r].bucketConfig.cdnUrl, "/", "k">>]
                 ELSE [NoUpResp EXCEPT
                         !.op = "upload", !.code = 500,
                         !.uploadId = up[r].uploadId, !.s3 = up[r].s3,
                         !.bucket = up[r].bucketConfig.name]
    /\ up' = [up EXCEPT ![r] = IdleUp]
    /\ UNCHANGED <<cacheNow, s3ClientCache, s3Clients, timers>>

\* POST /clean-up, lines 250-256: the handler reads the body only, the
\* x-access-token header of the request is never looked at
CleanUp(token, uploadId) ==
    /\ IF uploadId # NULL
       THEN Evict(uploadId)
       ELSE UNCHANGED <<s3ClientCache, s3Clients>>
    /\ upResp' = [NoUpResp EXCEPT !.op = "clean-up", !.code = 200,
                                  !.success = TRUE, !.uploadId = uploadId]
    /\ UNCHANGED <<cacheNow, timers, up>>

\* the callback of a timer set by setS3CacheEntry runs when its time has come
TimerFire(t) ==
    /\ t \in timers
    /\ t.due <= cacheNow
    /\ Evict(t.uploadId)
    /\ timers' = timers \ {t}
    /\ UNCHANGED <<cacheNow, up, upResp>>

\* time passes once the timers that are due have run
CacheTick ==
    /\ cacheNow < MaxCacheTime
    /\ \A t \in timers : t.due > cacheNow
    /\ cacheNow' = cacheNow + 1
    /\ UNCHANGED <<s3ClientCache, s3Clients, timers, up, upResp>>

DoUploadBegin ==
    /\ \E r \in UpReqs, hasToken \in BOOLEAN : UploadBegin(r, hasToken)
    /\ UNCHANGED <<genVars, filesVars, clientVars, masterKey>>

DoUploadVerified ==
    /\ \E r \in UpReqs, token \in {"forged", "valid"} : UploadVerified(r, token)
    /\ UNCHANGED <<genVars, filesVars, clientVars, masterKey>>

DoUploadForm ==
    /\ \E r \in UpReqs, form \in Forms : UploadForm(r, form)
    /\ UNCHANGED <<genVars, filesVars, clientVars, masterKey>>

DoUploadTokenDecrypted ==
    /\ \E r \in UpReqs : UploadTokenDecrypted(r)
    /\ UNCHANGED <<genVars, filesVars, clientVars, masterKey>>

DoUploadAccessDecrypted ==
    /\ \E r \in UpReqs : UploadAccessDecrypted(r)
    /\ UNCHANGED <<genVars, filesVars, clientVars, masterKey>>

DoUploadSecretDecrypted ==
    /\ \E r \in UpReqs : UploadSecretDecrypted(r)
    /\ UNCHANGED <<genVars, filesVars, clientVars, masterKey>>

DoUploadSent ==
    /\ \E r \in UpReqs, outcome \in {"etag", "noEtag", "threw"} :
          UploadSent(r, outcome)
    /\ UNCHANGED <<genVars, filesVars, clientVars, masterKey>>

DoCleanUp ==
    /\ \E token \in {NULL, "forged", "valid"}, uploadId \in Sessions \cup {NULL} :
          CleanUp(token, uploadId)
    /\ UNCHANGED <<genVars, filesVars, clientVars, masterKey>>

DoTimerFire ==
    /\ \E t \in timers : TimerFire(t)
    /\ UNCHANGED <<genVars, filesVars, clientVars, masterKey>>

DoCacheTick == CacheTick /\ UNCHANGED <<genVars, filesVars, clientVars, masterKey>>

\* the state after construction, for a master key of keyLength bytes
InitWith(keyLength) ==
    /\ masterKey = keyLength
    /\ sequence = 0
    /\ lastTimestamp = 0 - 1
    /\ genPc = "idle"
    /\ genOut = "none"
    /\ prevId = {}
    /\ curId = {}
    /\ now = ClockStart
    /\ files = <<>>
    /\ inflight = [r \in Reqs |-> IdleReq]
    /\ resp = NoResp
    /\ stage = 0
    /\ client = NoClient
    /\ cacheNow = 0
    /\ s3ClientCache = [u \in Sessions |-> {}]
    /\ s3Clients = <<>>
    /\ timers = {}
    /\ up = [r \in UpReqs |-> IdleUp]
    /\ upResp = NoUpResp

\* a deployment whose master key has the required length
Init == InitWith(KEY_BYTES)

NextGen == NextIdCall \/ TilNextMillis

SpecGen == Init /\ [][NextGen]_vars

\* the generator under a clock that goes on: while a call is in its
\* busy-wait, the loop keeps reading the clock (jose.ts:97-99), and a reading
\* above lastTimestamp, which stays possible, is taken in the end
SpecGenLive ==
    Init /\ [][NextGen]_vars /\ WF_vars(TilNextMillis /\ genPc' = "idle")

NextCache ==
    \/ DoUploadBegin
    \/ DoUploadVerified
    \/ DoUploadForm
    \/ DoUploadTokenDecrypted
    \/ DoUploadAccessDecrypted
    \/ DoUploadSecretDecrypted
    \/ DoUploadSent
    \/ DoCleanUp
    \/ DoTimerFire
    \/ DoCacheTick

SpecCache == Init /\ [][NextCache]_vars

Next ==
    \/ DoTick
    \/ DoMiddlewareReject
    \/ DoUploadStart
    \/ DoUploadFinish
    \/ DoPresign
    \/ DoComplete
    \/ DoMpInitiateStart
    \/ DoMpInitiateFinish
    \/ DoMpPresign
    \/ DoMpCompleteStart
    \/ DoMpCompleteFinish

Spec == Init /\ [][Next]_vars

NextHappy ==
    \/ DoTick
    \/ HappyInitiate
    \/ HappyInitiated
    \/ HappyPresignPart
    \/ HappyUploadParts
    \/ HappyComplete
    \/ HappyCompleted

SpecHappy == Init /\ [][NextHappy]_vars

(***************************************************************************)
(* Properties                                                              *)
(***************************************************************************)
Terminal == {"completed", "failed"}

\* the rows of a table that carry the id
RowsOf(rows, id) == {i \in DOMAIN rows : rows[i].id = id}

\* the requests in flight that minted a fileId
Minting == {r \in Reqs : inflight[r].op \in {"upload", "mpInitiate"}}

\* C1: the ids returned by the successful nextId() calls of one instance are
\* strictly increasing in call order (each returned id exceeds the id
\* returned before it), so no two are equal.
C1_StrictlyIncreasing == \A p \in prevId : \A c \in curId : p < c

\* the 4096th id of the epoch millisecond was followed by the first id of a
\* later millisecond
C1_Witness ==
    /\ genOut = "returned"
    /\ sequence = 0
    /\ lastTimestamp > EPOCH
    /\ prevId = {AssembleId(EPOCH, DefaultDatacenterId, DefaultWorkerId, 4095)}

\* C2: any two requests that mint a fileId (/upload, /presign,
\* /multipart/initiate) obtain different fileIds, also within one millisecond:
\* the fileId of a request in flight differs from that of every other request
\* in flight and from the fileId the latest answered request minted.
C2_UniqueFileIds ==
    /\ \A r1 \in Minting : \A r2 \in Minting :
          r1 # r2 => inflight[r1].fileId # inflight[r2].fileId
    /\ \A r \in Minting :
          resp.op \in {"upload", "presign", "mpInitiate"} /\ resp.fileId # NoNum
             => resp.fileId # inflight[r].fileId

\* C3: concurrent /upload requests with the same unseen uploadId run the
\* loader once: no two requests are between the cache miss and the store of
\* the client for the same uploadId at the same time.
C3_SingleLoader ==
    \A r1 \in InLoader : \A r2 \in InLoader :
       r1 # r2 => up[r1].uploadId # up[r2].uploadId

\* C4: a record whose status is completed or failed keeps that status: the
\* latest answered request left every terminal record of the table it found
\* with the status it had.
C4_StatusMonotonic ==
    \A i \in DOMAIN resp.prior :
       resp.prior[i].status \in Terminal
          => files[i].status = resp.prior[i].status

\* C5: /multipart/complete for a fileId whose record is completed or failed
\* is rejected: no step issues the finalize call for such a fileId, and no
\* answer to such a request is a success or comes with a changed table.
C5_Step ==
    /\ \A r \in Reqs :
          /\ inflight[r].op = "idle"
          /\ inflight'[r].op = "mpComplete"
          => StatusesOf(files, inflight'[r].fileId) \cap Terminal = {}
    /\ /\ resp' # resp
       /\ resp'.op = "mpComplete"
       /\ StatusesOf(resp'.prior, resp'.fileId) \cap Terminal # {}
       => ~resp'.success /\ ~resp'.called /\ files' = resp'.prior

C5_RejectsTerminal == [][C5_Step]_vars

\* C6: /multipart/complete with an empty parts list is rejected before the
\* backend is contacted: no finalize call is in flight for an empty list.
C6_EmptyPartsRejected ==
    \A r \in Reqs :
       inflight[r].op = "mpComplete" => inflight[r].parts.items # <<>>

\* C7: on the happy path of the multipart protocol the record of the file is
\* pending from the answer of initiate until complete is answered, and then
\* it is completed with size_bytes the sizeBytes supplied, and the finalUrl
\* returned is <cdnUrl>/<key>.
C7_HappyPath ==
    /\ stage \in 2..6 =>
          /\ RowsOf(files, client.fileId) # {}
          /\ \A i \in RowsOf(files, client.fileId) :
                files[i].status = "pending" /\ files[i].key = client.key
    /\ stage = 7 =>
          /\ resp.op = "mpComplete" /\ resp.success
          /\ resp.finalUrl = [base |-> BucketConfig(client.bucket).cdnUrl,
                              sep |-> "/", key |-> client.key]
          /\ RowsOf(files, client.fileId) # {}
          /\ \A i \in RowsOf(files, client.fileId) :
                /\ files[i].status = "completed"
                /\ files[i].size_bytes = client.size
                /\ files[i].key = client.key

\* the client of bucket 2, which has no cdn_url, got its finalUrl
C7_Witness ==
    /\ stage = 7
    /\ client.bucket = 2
    /\ Len(client.parts.items) = 2
    /\ Len(client.urls) = 2
    /\ resp.finalUrl.base = <<"https://s3.two", "/", "two">>
    /\ \E i \in DOMAIN files : files[i].status = "completed"

\* C8: when /multipart/complete has got the backend's response for a pending
\* record and its UPDATE is applied, the record is failed and the answer an
\* error if the response was non-success, and the record is completed with
\* size_bytes the sizeBytes supplied and completed_at set, and the answer a
\* success, if the response was success.
C8_CompleteOutcome ==
    resp.op = "mpComplete" /\ resp.outcome \in {"ok", "notOk"} /\ ~resp.threw
       => \A i \in RowsOf(resp.prior, resp.fileId) :
             resp.prior[i].status = "pending"
                => IF resp.outcome = "notOk"
                   THEN /\ files[i].status = "failed"
                        /\ ~resp.success /\ resp.code = 500
                   ELSE /\ files[i].status = "completed"
                        /\ files[i].size_bytes = resp.size
                        /\ files[i].completed_at # NULL
                        /\ resp.success

\* a pending record was completed by a success response
C8_Witness ==
    /\ resp.op = "mpComplete" /\ resp.outcome = "ok" /\ ~resp.threw
    /\ \E i \in RowsOf(resp.prior, resp.fileId) :
          /\ resp.prior[i].status = "pending"
          /\ files[i].status = "completed"

C10_PresignThenComplete ==
    /\ resp.op = "presign" =>
          /\ files = resp.prior
          /\ ~resp.called /\ ~resp.wrote
          /\ resp.success =>
                /\ \E t \in ClockStart..now : resp.key = Key(t, resp.fileName)
                /\ resp.key[1] = "uploads/" /\ resp.key[3] = "-"
                /\ resp.key[4] = resp.fileName
    /\ resp.op = "complete" /\ resp.code # 400 /\ ~resp.threw =>
          /\ resp.success /\ ~resp.called
          /\ Len(files) = Len(resp.prior) + 1
          /\ SubSeq(files, 1, Len(resp.prior)) = resp.prior
          /\ LET row == files[Len(files)] IN
             /\ row.id = resp.fileId /\ row.key = resp.key
             /\ row.file_name = resp.fileName
             /\ row.size_bytes = resp.size
             /\ row.content_type = resp.contentType
             /\ row.bucket_id = resp.bucket
             /\ row.status = "completed"
             /\ row.completed_at # NULL

\* /complete stored the record of a fileId and key that /presign returns
C10_Witness ==
    /\ resp.op = "complete" /\ resp.success
    /\ resp.prior = <<>>
    /\ Len(files) = 1
    /\ files[1].id = getSnowflakeGenerator(ClockStart)
    /\ files[1].key = Key(ClockStart, "report.pdf")
    /\ files[1].size_bytes = 1024
    /\ files[1].status = "completed"

\* C11: the loader runs exactly when the uploadId has no entry at the lookup.
\* A request whose lookup finds an entry goes on to send with the client and
\* the config of that entry, and nothing is constructed, stored or scheduled;
\* a request enters the loader only when the lookup finds no entry (so also
\* after /clean-up or a timer has removed one), and a loader that completes
\* stores a fresh entry with a new client that has not been destroyed.
C11_Step ==
    \A r \in UpReqs :
       /\ up[r].pc = "formData" /\ up'[r].pc = "decryptToken"
             => s3ClientCache[up'[r].uploadId] = {}
       /\ up[r].pc = "formData" /\ up'[r].pc = "send"
             => /\ \E e \in s3ClientCache[up'[r].uploadId] :
                      /\ up'[r].s3 = e.client
                      /\ up'[r].bucketConfig = e.config
                /\ s3Clients' = s3Clients
                /\ s3ClientCache' = s3ClientCache
                /\ timers' = timers
       /\ up[r].pc = "decryptSecret" /\ up'[r].pc = "send"
             => /\ Len(s3Clients') = Len(s3Clients) + 1
                /\ s3Clients'[Len(s3Clients')].destroyed = 0
                /\ s3ClientCache'[up[r].uploadId] =
                      {[client |-> Len(s3Clients'),
                        config |-> up[r].bucketConfig]}
                /\ up'[r].s3 = Len(s3Clients')

C11_LoaderOnMiss == [][C11_Step]_vars

\* the first entry of u1 was evicted by /clean-up (its timer is still
\* pending), a loader stored a second one, and two requests have used the
\* second client: the one that built it and one that found it in the cache
C11_Witness ==
    /\ Len(s3Clients) = 2
    /\ s3Clients[1].destroyed = 1
    /\ \E t \in timers : t.entry = 1 /\ t.uploadId = "u1"
    /\ s3ClientCache["u1"] = {[client |-> 2, config |-> decryptToken("tokA")]}
    /\ upResp.success /\ upResp.s3 = 2
    /\ \E r \in UpReqs : up[r].pc = "send" /\ up[r].s3 = 2

\* the step is an eviction of the uploadId: a timer of the uploadId ran, or
\* /clean-up was answered for it
EvictionOf(u) ==
    \/ \E t \in timers : t.uploadId = u /\ timers' = timers \ {t}
    \/ /\ upResp'.op = "clean-up" /\ upResp'.uploadId = u
       /\ up' = up /\ timers' = timers /\ cacheNow' = cacheNow

\* C12: eviction is idempotent.  An eviction of an uploadId that has an entry
\* removes the entry and destroys its client, once; an eviction of an
\* uploadId that has none changes neither the cache nor any client, and a
\* /clean-up is answered with success either way.  No client is ever
\* destroyed twice.
C12_Step ==
    /\ \A u \in Sessions :
          EvictionOf(u) =>
             /\ \A u2 \in Sessions \ {u} : s3ClientCache'[u2] = s3ClientCache[u2]
             /\ s3ClientCache'[u] = {}
             /\ IF s3ClientCache[u] = {}
                THEN s3Clients' = s3Clients
                ELSE \A e \in s3ClientCache[u] :
                        /\ s3Clients[e.client].destroyed = 0
                        /\ s3Clients' = [s3Clients EXCEPT
                                           ![e.client].destroyed = 1]
             /\ upResp'.op = "clean-up" /\ upResp' # upResp =>
                   upResp'.success /\ upResp'.code = 200
    /\ \A i \in DOMAIN s3Clients' : s3Clients'[i].destroyed <= 1

C12_EvictionIdempotent == [][C12_Step]_vars

\* the entry of u1 has been evicted, its timer has run and /clean-up has been
\* answered for u1: the later of the two found no entry
C12_Witness ==
    /\ Len(s3Clients) = 1
    /\ s3Clients[1].destroyed = 1
    /\ timers = {}
    /\ \A u \in Sessions : s3ClientCache[u] = {}
    /\ upResp.op = "clean-up" /\ upResp.uploadId = "u1" /\ upResp.success
    /\ cacheNow = CLIENT_CACHE_TTL_MS

\* C13: no entry stays in the cache for longer than the TTL after it was
\* stored: for every entry in the cache, the time since the setS3CacheEntry
\* call that stored it is at most CLIENT_CACHE_TTL_MS (and the timer of that
\* call is still to run).
C13_TTLBound ==
    \A u \in Sessions : \A e \in s3ClientCache[u] :
       \E t \in timers :
          /\ t.entry = e.client
          /\ t.uploadId = u
          /\ cacheNow - t.set <= CLIENT_CACHE_TTL_MS

\* a second entry of u1, stored after the first was evicted, has reached the
\* age of the TTL
C13_Witness ==
    /\ Len(s3Clients) = 2
    /\ s3Clients[1].destroyed = 1
    /\ \E e \in s3ClientCache["u1"] : \E t \in timers :
          /\ t.entry = e.client /\ e.client = 2
          /\ t.set > 0
          /\ cacheNow - t.set = CLIENT_CACHE_TTL_MS

(***************************************************************************)
(* SpecFields: the files router receiving only requests that lack a        *)
(* required field (or whose parts are no array).                           *)
(***************************************************************************)
LackingNameOrType ==
    {[fileName |-> NULL, contentType |-> "application/pdf"],
     [fileName |-> "report.pdf", contentType |-> NULL],
     [fileName |-> NULL, contentType |-> NULL]}

LackingCompleteBodies ==
    {body \in CompleteBodies :
        \/ body.fileId = NoNum \/ body.key = NoKey \/ body.fileName = NULL
        \/ body.sizeBytes = NoNum \/ body.contentType = NULL}

LackingMpPresignBodies ==
    {body \in MpPresignBodies :
        body.key = NoKey \/ body.uploadId = NULL \/ body.partNumber = NoNum}

LackingMpCompleteBodies ==
    {body \in MpCompleteBodies :
        \/ body.fileId = NoNum \/ body.key = NoKey \/ body.uploadId = NULL
        \/ ~body.parts.present \/ ~body.parts.array}

FieldsUpload ==
    /\ \E r \in Reqs, b \in Buckets : UploadStart(r, b, NoFile, BOOLEAN, BOOLEAN)
    /\ UNCHANGED <<genVars, clientVars, cacheVars, masterKey>>

FieldsPresign ==
    /\ \E b \in Buckets, body \in LackingNameOrType : Presign(b, body, BOOLEAN)
    /\ UNCHANGED <<genVars, clientVars, cacheVars, masterKey>>

FieldsComplete ==
    /\ \E b \in Buckets, body \in LackingCompleteBodies :
          Complete(b, body, BOOLEAN)
    /\ UNCHANGED <<genVars, clientVars, cacheVars, masterKey>>

FieldsMpInitiateStart ==
    /\ \E r \in Reqs, b \in Buckets, body \in LackingNameOrType :
          MpInitiateStart(r, b, body, BOOLEAN)
    /\ UNCHANGED <<genVars, clientVars, cacheVars, masterKey>>

FieldsMpPresign ==
    /\ \E b \in Buckets, body \in LackingMpPresignBodies :
          MpPresign(b, body, BOOLEAN)
    /\ UNCHANGED <<genVars, clientVars, cacheVars, masterKey>>

FieldsMpCompleteStart ==
    /\ \E r \in Reqs, b \in Buckets, body \in LackingMpCompleteBodies :
          MpCompleteStart(r, b, body, BOOLEAN)
    /\ UNCHANGED <<genVars, clientVars, cacheVars, masterKey>>

NextFields ==
    \/ DoTick
    \/ FieldsUpload
    \/ FieldsPresign
    \/ FieldsComplete
    \/ FieldsMpInitiateStart
    \/ DoMpInitiateFinish
    \/ FieldsMpPresign
    \/ FieldsMpCompleteStart

SpecFields == Init /\ [][NextFields]_vars

\* C14: a request that lacks a required field is rejected with no side
\* effects: when every request lacks one, no backend call is ever in flight,
\* no answer follows a backend call or a write, and the table stays empty.
C14_NoSideEffects ==
    /\ \A r \in Reqs : inflight[r].op = "idle"
    /\ ~resp.called /\ ~resp.wrote
    /\ files = <<>>

\* the steps of a request whose x-access-token header is missing or is not a
\* token verifyPasetoToken accepts
C15_Unauthenticated ==
    \/ \E r \in UpReqs : UploadBegin(r, FALSE)
    \/ \E r \in UpReqs : UploadVerified(r, "forged")
    \/ \E token \in {NULL, "forged"}, uploadId \in Sessions \cup {NULL} :
          CleanUp(token, uploadId)

C15_Step ==
    C15_Unauthenticated =>
        /\ UNCHANGED <<s3ClientCache, s3Clients, timers>>
        /\ \A r \in UpReqs : up'[r].pc = "send" => up[r].pc = "send"

\* C15: a request without a valid bearer credential is rejected before the
\* cache is touched: its step creates and evicts no cache entry, destroys no
\* client and sends nothing to the backend, for /upload and for /clean-up
\* alike.
C15_RejectedBeforeEngine == [][C15_Step]_vars

\* the latest answered request had a persistence write that threw: an INSERT
\* of /upload (in the try block or in the catch block), the INSERT of
\* /complete or of /multipart/initiate, an UPDATE of /multipart/complete
C16_WriteThrew ==
    /\ resp.threw
    /\ \/ resp.op = "upload"
       \/ resp.op = "complete" /\ resp.outcome = "none"
       \/ resp.op = "mpInitiate" /\ resp.outcome = "ok"
       \/ resp.op = "mpComplete" /\ resp.outcome \in {"ok", "notOk"}

\* C16: a request one of whose persistence writes failed is never answered
\* with a success: the answer is an error of status 500 that names no final
\* URL, in /upload, /complete, /multipart/initiate and /multipart/complete.
C16_WriteFailureSurfaced ==
    C16_WriteThrew =>
        /\ ~resp.success
        /\ resp.code = 500
        /\ resp.finalUrl = <<>>

\* /multipart/complete after the backend assembled the object, the UPDATE
\* throwing
C16_Witness ==
    /\ C16_WriteThrew
    /\ resp.op = "mpComplete" /\ resp.outcome = "ok"
    /\ \E i \in DOMAIN resp.prior : resp.prior[i].id = resp.fileId
    /\ files = resp.prior

C17_Step ==
    \* the failed call produces no id and leaves the instance as it was
    /\ genOut' = "ClockSkew" =>
          UNCHANGED <<sequence, lastTimestamp, genPc, prevId, curId>>
    \* a call fails exactly on a reading below lastTimestamp, also right after
    \* a failed call
    /\ genPc = "idle" =>
          \A timestamp \in ClockVals :
             (NextIdOutcome(sequence, lastTimestamp, timestamp).kind = "throw")
                <=> (timestamp < lastTimestamp)
    \* the call after a failed one that does not fail took a reading that is
    \* not below lastTimestamp
    /\ (genOut = "ClockSkew" /\ genOut' # "ClockSkew") =>
          /\ genOut' \in {"returned", "waiting"}
          /\ genOut' = "returned" => curId' # curId
    /\ lastTimestamp' >= lastTimestamp

\* C17: a nextId() whose clock reading is below lastTimestamp fails with the
\* clock-skew error, returns no id and leaves sequence and lastTimestamp
\* unchanged; a call fails on no other reading, so the next call whose
\* reading is not below lastTimestamp succeeds, and lastTimestamp never
\* decreases.
C17_ClockSkew == [][C17_Step]_vars

\* a call failed after the instance had returned ids within one millisecond
C17_Witness ==
    /\ genOut = "ClockSkew"
    /\ sequence > 0
    /\ lastTimestamp > EPOCH
    /\ curId = {AssembleId(lastTimestamp, DefaultDatacenterId, DefaultWorkerId,
                           sequence)}

\* the timestamp and the sequence an id carries
C18_TimestampOf(id) == (id \div (2 ^ TIMESTAMP_SHIFT)) + EPOCH

C18_SequenceOf(id) == id % (2 ^ SEQUENCE_BITS)

C18_Step ==
    \* an id that is returned carries the instance's timestamp and sequence
    /\ curId' # curId =>
          \A id \in curId' :
             /\ C18_TimestampOf(id) = lastTimestamp'
             /\ C18_SequenceOf(id) = sequence'
             /\ sequence' \in 0..4095
    \* another id of the same millisecond carries the next sequence value
    /\ (curId' # curId /\ lastTimestamp' = lastTimestamp) =>
          sequence' = sequence + 1
    \* the first id of a millisecond carries sequence 0, and the millisecond is
    \* later than the one before
    /\ lastTimestamp' # lastTimestamp =>
          /\ lastTimestamp' > lastTimestamp
          /\ sequence' = 0
          /\ curId' # curId
    \* the call waits only once the 4096 sequence values of the millisecond are
    \* used up, and the waiting call has returned no id
    /\ (genPc = "idle" /\ genPc' = "tilNextMillis") =>
          /\ sequence = 4095
          /\ UNCHANGED <<lastTimestamp, prevId, curId>>
    \* the waiting call returns on a reading above the millisecond it waits
    \* for, with sequence 0, and not before
    /\ genPc = "tilNextMillis" =>
          \/ UNCHANGED genVars
          \/ /\ genPc' = "idle"
             /\ lastTimestamp' > lastTimestamp
             /\ sequence' = 0
             /\ curId' # curId

\* C18: the ids of one millisecond t carry the sequence values in order, from
\* 0 up to 4095 at most, each once, so at most 4096 ids carry t; the call
\* that would issue the 4097th waits, returns only on a clock reading above
\* t, and its id carries that later timestamp with sequence 0.
C18_SequenceBound == [][C18_Step]_vars

\* the call after the 4096th id of millisecond EPOCH + 1 has returned the
\* first id of millisecond EPOCH + 2
C18_Witness ==
    /\ genOut = "returned" /\ genPc = "idle"
    /\ \E p \in prevId : /\ C18_SequenceOf(p) = 4095
                         /\ C18_TimestampOf(p) = EPOCH + 1
    /\ \E c \in curId : /\ C18_SequenceOf(c) = 0
                        /\ C18_TimestampOf(c) = EPOCH + 2

(***************************************************************************)
(* The master key of a deployment.  The chunk server checks its length     *)
(* when the module is loaded (part_001:56-59); the files router hands the  *)
(* key to decryptSecret of jose.ts in its middleware (part_003:114-115).   *)
(***************************************************************************)
\* a key that is too short, one of the required length, one too long
KeyLengths == {16, KEY_BYTES, 48}

InitKey == \E keyLength \in KeyLengths : InitWith(keyLength)

\* decryptSecret(encrypted, key) of jose.ts:18-25: the check of the decoded
\* key's length, then the decryption
decryptSecretJose(encrypted, keyLength) ==
    IF keyLength # KEY_BYTES
    THEN [threw |-> TRUE, plaintext |-> NULL]
    ELSE [threw |-> FALSE, plaintext |-> <<"plaintext of", encrypted>>]

\* the middleware of the files router (part_003:91-128) where it ends the
\* request: the answers 400 and 404, and the throw of decryptSecret
KeyMiddleware(op, b) ==
    /\ IF Middleware(b) # 200
       THEN resp' = [NoResp EXCEPT !.op = op, !.prior = files,
                                   !.code = Middleware(b)]
       ELSE /\ decryptSecretJose("access_key_encrypted", masterKey).threw
            /\ resp' = [NoResp EXCEPT !.op = op, !.outcome = "decryptSecret",
                                      !.threw = TRUE, !.prior = files,
                                      !.code = 500]
    /\ UNCHANGED <<now, files, inflight>>

\* the requests the middleware hands on with next()
KeyHandlers ==
    /\ ~decryptSecretJose("access_key_encrypted", masterKey).threw
    /\ ~decryptSecretJose("secret_key_encrypted", masterKey).threw
    /\ (DoPresign \/ DoMpPresign)

\* the chunk server serves once its module has loaded (part_001:56-59)
KeyServer ==
    /\ masterKey = KEY_BYTES
    /\ (DoUploadBegin \/ DoUploadVerified \/ DoCleanUp)

NextKey ==
    \/ DoTick
    \/ /\ \E op \in {"upload", "presign", "mpComplete"}, b \in BucketInputs :
             KeyMiddleware(op, b)
       /\ UNCHANGED <<genVars, clientVars, cacheVars, masterKey>>
    \/ KeyHandlers
    \/ KeyServer

SpecKey == InitKey /\ [][NextKey]_vars

\* C19: a master key that is not 32 bytes long is a fatal error of startup:
\* under such a key no request is taken up and none is answered, neither
\* with a result nor with a failure of its own.
C19_FatalAtStartup ==
    masterKey # KEY_BYTES =>
        /\ resp = NoResp
        /\ upResp = NoUpResp
        /\ \A r \in Reqs : inflight[r] = IdleReq
        /\ \A r \in UpReqs : up[r] = IdleUp

\* C20: when the finalize call of /multipart/complete fails, by fetch
\* throwing or by a non-success response (whose UPDATE is applied), the answer
\* is an error and the record of the fileId, if it was pending, is failed.
C20_BackendFailureFails ==
    /\ resp.op = "mpComplete"
    /\ resp.called
    /\ resp.outcome = "threw" \/ (resp.outcome = "notOk" /\ ~resp.threw)
    => /\ ~resp.success
       /\ resp.code = 500
       /\ \A i \in RowsOf(resp.prior, resp.fileId) :
             resp.prior[i].status = "pending" => files[i].status = "failed"

\* C21: the client of an /upload request whose s3.send is under way has not
\* been destroyed, whatever /clean-up requests and timers ran meanwhile.
C21_NoUseAfterDestroy ==
    \A r \in UpReqs :
       up[r].pc = "send" => s3Clients[up[r].s3].destroyed = 0

C22_Step ==
    \A t \in timers :
       (/\ timers' = timers \ {t}
        /\ s3ClientCache[t.uploadId] # {}
        /\ s3ClientCache'[t.uploadId] = {})
       => \A e \in s3ClientCache[t.uploadId] :
             \A own \in timers :
                own.entry = e.client
                   => cacheNow = own.set + CLIENT_CACHE_TTL_MS

\* C22: an entry that a timer evicts is evicted at its own creation time plus
\* the TTL and not before, also when an earlier entry of the same uploadId
\* was stored and released or replaced before it.
C22_OwnTimer == [][C22_Step]_vars

\* C23: an answered /multipart/initiate whose backend call was accepted has
\* added the pending record of its fileId to the table, and one whose
\* backend call threw or was refused has added nothing.
C23_InitiateAtomic ==
    resp.op = "mpInitiate" /\ resp.called =>
       IF resp.outcome = "ok"
       THEN /\ Len(files) = Len(resp.prior) + 1
            /\ SubSeq(files, 1, Len(resp.prior)) = resp.prior
            /\ files[Len(files)].id = resp.fileId
            /\ files[Len(files)].status = "pending"
       ELSE files = resp.prior

\* the await at which the loader of an /upload with this s3config fails
C24_FailsAt(s3config) ==
    CASE s3config = "tokBad" -> "decryptToken"
      [] s3config = "tokCorrupt" -> "decryptAccess"
      [] s3config \in {"tokCorruptSecret", "tokEmpty"} -> "decryptSecret"
      [] OTHER -> "never"

C24_Step ==
    \A r \in UpReqs :
       (up[r].pc = C24_FailsAt(up[r].s3config) /\ up'[r] # up[r]) =>
          /\ up'[r] = IdleUp
          /\ upResp' \in {UpAnswer("upload", 400), UpAnswer("upload", 500)}
          /\ UNCHANGED <<s3ClientCache, s3Clients, timers>>
          /\ \A r2 \in UpReqs : up'[r2].pc = "send" => up[r2].pc = "send"

\* C24: an /upload whose s3config token does not decrypt, or whose access or
\* secret key does not decrypt (or decrypts to nothing), is answered with a
\* bare error, and its step stores no entry, constructs no client, sets no
\* timer and sends nothing: cache, clients and timers are left as they were.
C24_LoaderFailure == [][C24_Step]_vars

\* a loader failed on a throwing decryptSecret while another uploadId had its
\* entry and timer
C24_Witness ==
    /\ upResp = UpAnswer("upload", 500)
    /\ \E u \in Sessions : s3ClientCache[u] # {}
    /\ timers # {}
    /\ \E r \in UpReqs : up[r] = IdleUp

\* an id decoded by shift and mask: timestamp delta, datacenterId, workerId,
\* sequence
C25_Decode(id) ==
    <<id \div (2 ^ 22), (id \div (2 ^ 17)) % 32, (id \div (2 ^ 12)) % 32,
      id % 4096>>

\* the least, the default and the greatest workerId and datacenterId
C25_Ids == {0, 1, MAX_WORKER_ID}

\* C25: the four fields of an id do not overlap: the id a call returned
\* decodes by shift and mask to the timestamp delta, the datacenterId, the
\* workerId and the sequence it was built from, the sequence is in 0..4095,
\* and the same holds for the id any workerId and datacenterId of 0..31 would
\* have given for that timestamp and sequence.
C25_FieldsDecode ==
    genOut = "returned" =>
       /\ sequence \in 0..4095
       /\ MAX_WORKER_ID = 31 /\ MAX_DATACENTER_ID = 31
       /\ \A id \in curId :
             C25_Decode(id) = <<lastTimestamp - EPOCH, DefaultDatacenterId,
                                DefaultWorkerId, sequence>>
       /\ \A dc \in C25_Ids : \A w \in C25_Ids :
             C25_Decode(AssembleId(lastTimestamp, dc, w, sequence))
                = <<lastTimestamp - EPOCH, dc, w, sequence>>

\* the id with all twelve sequence bits set, after the epoch
C25_Witness ==
    /\ genOut = "returned"
    /\ sequence = 4095
    /\ lastTimestamp = EPOCH + 1
    /\ curId # {}

\* the columns of a record that are fixed at its creation
C26_Fixed(row) ==
    <<row.id, row.key, row.file_name, row.content_type, row.bucket_name,
      row.bucket_id>>

C26_Step ==
    \* no step deletes a record or changes a fixed column
    /\ Len(files') >= Len(files)
    /\ \A i \in DOMAIN files : C26_Fixed(files'[i]) = C26_Fixed(files[i])
    \* the step that answers /multipart/complete
    /\ \A r \in Reqs :
          (inflight[r].op = "mpComplete" /\ inflight'[r].op = "idle") =>
             /\ Len(files') = Len(files)
             /\ \A i \in DOMAIN files :
                   IF files[i].id # inflight[r].fileId
                   THEN files'[i] = files[i]
                   ELSE \/ files'[i] = files[i]
                        \/ /\ ~resp'.success
                           /\ files'[i] = [files[i] EXCEPT !.status = "failed"]
                        \/ /\ resp'.success
                           /\ files'[i] =
                                 [files[i] EXCEPT
                                    !.status = files'[i].status,
                                    !.completed_at = files'[i].completed_at,
                                    !.size_bytes = files'[i].size_bytes]

\* C26: records are never deleted and their id, key, file name, content type
\* and bucket never change; /multipart/complete leaves every record of
\* another fileId as it was and, of the record with its fileId, changes only
\* the status when it fails and only status, completed_at and size_bytes when
\* it succeeds.
C26_ImmutableFields == [][C26_Step]_vars

\* /multipart/complete has changed the record of its fileId while the table
\* held a record of another fileId
C26_Witness ==
    /\ resp.op = "mpComplete" /\ resp.wrote
    /\ Len(files) = 2 /\ Len(resp.prior) = 2
    /\ \E i \in DOMAIN files : \E j \in DOMAIN files :
          /\ files[i].id = resp.fileId /\ files[i] # resp.prior[i]
          /\ files[j].id # resp.fileId /\ files[j] = resp.prior[j]

\* C27: after a success answer of /multipart/complete the table holds a
\* completed record with the fileId the request supplied.
C27_SuccessHasRecord ==
    resp.op = "mpComplete" /\ resp.success /\ resp.finalUrl # <<>> =>
       \E i \in DOMAIN files :
          files[i].id = resp.fileId /\ files[i].status = "completed"

\* C28: every client that was constructed and is not destroyed yet is the
\* client of a cache entry.  /clean-up and the timers destroy the client of
\* the entry they find and nothing else, so a client outside the cache that
\* is not destroyed is never destroyed.
C28_NoOrphanClient ==
    \A id \in DOMAIN s3Clients :
       s3Clients[id].destroyed = 0 =>
          \E u \in Sessions : \E e \in s3ClientCache[u] : e.client = id

\* the request record of slot r after a cache hit on entry e of uploadId u
C29_Hit(r, u, e) ==
    [up EXCEPT ![r] = [IdleUp EXCEPT !.pc = "send", !.uploadId = u,
                                     !.s3 = e.client,
                                     !.bucketConfig = e.config]]

\* C29: on a cache hit the s3config of the form does not matter: for every
\* complete form naming a cached uploadId, whatever token it carries (valid,
\* of another bucket, not decryptable), the handler can only go on to send
\* the part through the cached client to the cached bucket, with no answer
\* given and the cache untouched.
C29_TokenIgnoredOnHit ==
    \A r \in UpReqs :
       up[r].pc = "formData" =>
          \A form \in Forms :
             (/\ form.uploadId # NULL /\ form.key # NULL
              /\ form.partNumber # 0 /\ form.chunk = "Blob"
              /\ form.s3config # NULL
              /\ s3ClientCache[form.uploadId] # {})
             => \A e \in s3ClientCache[form.uploadId] :
                   /\ ENABLED (/\ UploadForm(r, form)
                               /\ up' = C29_Hit(r, form.uploadId, e)
                               /\ upResp' = upResp)
                   /\ ~ ENABLED (/\ UploadForm(r, form)
                                 /\ \/ up' # C29_Hit(r, form.uploadId, e)
                                    \/ upResp' # upResp)

\* two requests are sending through one client: the later one had a hit
C29_Witness ==
    \E r1 \in UpReqs : \E r2 \in UpReqs :
       /\ r1 # r2
       /\ up[r1].pc = "send" /\ up[r2].pc = "send"
       /\ up[r1].s3 = up[r2].s3
       /\ up[r1].bucketConfig = up[r2].bucketConfig

C30_Step ==
    \A r \in Reqs :
       (inflight[r].op = "mpComplete" /\ inflight'[r].op = "idle") =>
          \A i \in DOMAIN files :
             files'[i].status # files[i].status
                => files[i].bucket_id = BucketConfig(inflight[r].bucket).id

\* C30: the step that answers a /multipart/complete sent with bucketId B
\* changes the status of records of bucket B only.
C30_OwnBucketOnly == [][C30_Step]_vars

\* C31: a nextId() call that entered the busy-wait leaves it and returns,
\* given that the clock can still read a value above lastTimestamp; readings
\* at or below lastTimestamp, lower than earlier ones included, keep it
\* waiting and do not make it fail.  (A call that does not wait returns or
\* throws in its one step.)
C31_Terminates ==
    (genPc = "tilNextMillis" /\ lastTimestamp < MaxClock) ~> (genPc = "idle")

\* a call that waited in the millisecond before the epoch has returned at
\* the last millisecond of the clock, with sequence 0
C31_Witness ==
    /\ genPc = "idle" /\ genOut = "returned"
    /\ sequence = 0 /\ lastTimestamp = MaxClock
    /\ prevId = {AssembleId(EPOCH - 1, DefaultDatacenterId, DefaultWorkerId,
                            4095)}
====
